---- MODULE Spec2Model ----
(***************************************************************************)
(* Model of the content-addressed chunk store of rs-s3-local (src/fs.rs):  *)
(* path_from_hash, save_file / mmap_write_file, sum_sha256,                *)
(* compress_chunk / decompress_chunk, DecompressStream and                 *)
(* split_file_and_save, run by concurrent tasks over one file system.      *)
(***************************************************************************)
EXTENDS Integers, Sequences, FiniteSets, TLC

\* ---------------------------------------------------------------- bounds
MaxData == 2      \* longest input buffer handed to split_file_and_save
MaxChunk == 2     \* largest chunk_size
MaxHashes == 2    \* longest hash list handed to DecompressStream::new

\* passes of the read loop are counted up to here
MaxIters == MaxData + 2

Bytes == {1, 2}
Tasks == {"t1", "t2"}

Min(a, b) == IF a <= b THEN a ELSE b

SeqsUpTo(S, n) == UNION {[1..k -> S] : k \in 0..n}

Inputs == SeqsUpTo(Bytes, MaxData)
\* the chunk contents that tasks save directly and that hash lists name
Contents == {<<1>>, <<2>>, <<1, 2>>}

\* ------------------------------------------------------------- hashing
RECURSIVE Code(_)
Code(d) == IF d = <<>> THEN 0 ELSE (d[1] + 1) + 3 * Code(Tail(d))

\* A collision-free digest over the bounded contents, two bytes wide.
get_sha256(data) ==
  << (Code(data) * 37 + 11) % 256, (Code(data) * 101 + 173) % 256 >>

HexLower ==
  << "0", "1", "2", "3", "4", "5", "6", "7",
     "8", "9", "a", "b", "c", "d", "e", "f" >>

to_uppercase(ch) ==
  CASE ch = "a" -> "A" [] ch = "b" -> "B" [] ch = "c" -> "C"
    [] ch = "d" -> "D" [] ch = "e" -> "E" [] ch = "f" -> "F"
    [] OTHER -> ch

RECURSIVE encode_hex(_)
encode_hex(bs) ==
  IF bs = <<>> THEN <<>>
  ELSE << HexLower[(bs[1] \div 16) + 1], HexLower[(bs[1] % 16) + 1] >>
         \o encode_hex(Tail(bs))

get_sha256_string(hash) ==
  LET s == encode_hex(hash) IN [i \in 1..Len(s) |-> to_uppercase(s[i])]

sum_sha256(data) == get_sha256_string(get_sha256(data))

Hashes == {sum_sha256(d) : d \in Contents}
HashLists == SeqsUpTo(Hashes, MaxHashes)

\* --------------------------------------------------------------- paths
PATH_PREFIX == "data/file"

\* a layout that cuts the hash as two characters, one, and the rest
path_from_hash_cut21(hash) ==
  << PATH_PREFIX, SubSeq(hash, 1, 2), SubSeq(hash, 3, 3),
     SubSeq(hash, 4, Len(hash)) >>

\* a layout whose last segment keeps one character only
path_from_hash_short(hash) ==
  << PATH_PREFIX, SubSeq(hash, 1, 1), SubSeq(hash, 2, 3), SubSeq(hash, 4, 4) >>

path_from_hash(hash) ==
  << PATH_PREFIX, SubSeq(hash, 1, 1), SubSeq(hash, 2, 3),
     SubSeq(hash, 4, Len(hash)) >>

parent(path) == SubSeq(path, 1, Len(path) - 1)

\* every directory create_dir_all makes on the way down to dir
ancestors(dir) == {SubSeq(dir, 1, k) : k \in 1..Len(dir)}

\* --------------------------------------------------------------- codec
Magic == 40

\* A frame: magic number, content length, raw content.
compress_chunk(chunk) == << Magic, Len(chunk) >> \o chunk

FrameOk(bytes) ==
  /\ Len(bytes) >= 2
  /\ bytes[1] = Magic
  /\ Len(bytes) = bytes[2] + 2

Decode(bytes) == SubSeq(bytes, 3, Len(bytes))

\* decompress_chunk: Ok(content) or Err, on the bytes found at chunk_path
decompress_chunk(fs, chunk_path) ==
  IF chunk_path \notin DOMAIN fs THEN [ok |-> FALSE, bytes |-> <<>>]
  ELSE IF ~FrameOk(fs[chunk_path]) THEN [ok |-> FALSE, bytes |-> <<>>]
  ELSE [ok |-> TRUE, bytes |-> Decode(fs[chunk_path])]

\* --------------------------------------------------------------- state
VARIABLES
  files,    \* the chunk tree: path -> bytes of the file there (existing files)
  dirs,     \* directories of the chunk tree that exist
  task,     \* per task: the call it runs and the locals of that call
  strm,     \* the DecompressStream instance and what it has yielded
  meta,     \* the metadata file at the caller's path, and its directory
  mtask     \* per task: the metadata call it runs, and what it last loaded

vars == << files, dirs, task, strm, meta, mtask >>

is_path_exist(fs, hash) == path_from_hash(hash) \in DOMAIN fs

NoResult == [kind |-> "none", size |-> 0, chunks |-> <<>>]

IdleTask ==
  [ pc |-> "idle", op |-> "none",
    data |-> <<>>, chunk_size |-> 1,
    pos |-> 0, buffer |-> <<>>, size |-> 0, chunks |-> <<>>,
    hash_code |-> <<>>, payload |-> <<>>, todo |-> {}, ret |-> "none",
    result |-> NoResult,
    saves |-> 0, created |-> {}, before |-> {}, first |-> NoResult,
    iters |-> 0, flushes |-> 0 ]

NewStream ==
  [ hashes |-> <<>>, idx |-> 0, yielded |-> <<>>,
    last |-> "new", ended |-> FALSE, short |-> FALSE,
    src |-> "none", gen |-> 0 ]

NoMetadata ==
  [name |-> <<>>, size |-> 0, file_type |-> <<>>, time |-> 0, chunks |-> <<>>]

IdleMeta ==
  [ pc |-> "idle", metadata |-> NoMetadata, meta_bytes |-> <<>>,
    result |-> "none", loaded |-> [kind |-> "none", metadata |-> NoMetadata] ]

Init ==
  /\ files = << >>
  /\ dirs = {}
  /\ task = [t \in Tasks |-> IdleTask]
  /\ strm = NewStream
  /\ meta = [dir |-> FALSE, exists |-> FALSE, bytes |-> <<>>]
  /\ mtask = [t \in Tasks |-> IdleMeta]
\* ------------------------------------------------- split_file_and_save
\* a read buffer created with one byte of length instead of empty
sized_buffer == <<0>>

\* let mut buffer = BytesMut::new()
new_buffer == <<>>

\* reader.read(&mut buffer): fills the front of the slice the buffer derefs
\* to, never growing it; returns the count and the buffer after the read.
reader_read(data, pos, buffer) ==
  LET read == Min(Len(buffer), Len(data) - pos)
  IN [ read |-> read,
       buffer |-> [i \in 1..Len(buffer) |->
                     IF i <= read THEN data[pos + i] ELSE buffer[i]] ]

\* the loop body with the guards of its final flush lost: whatever the
\* buffer holds when the input ends is hashed and saved
loop_body_unguarded(l, fs) ==
  LET r == reader_read(l.data, l.pos, l.buffer)
      chunk == r.buffer
      hash_code == sum_sha256(chunk)
  IN [next |-> "save",
      l |-> [l EXCEPT !.pos = @ + r.read, !.size = @ + r.read,
                      !.buffer = r.buffer,
                      !.chunks = Append(@, hash_code),
                      !.hash_code = hash_code,
                      !.payload = compress_chunk(chunk),
                      !.ret = "break"]]

\* a loop body whose end-of-input branch flushes the buffer even when empty
loop_body_flush_empty(l, fs) ==
  LET r == reader_read(l.data, l.pos, l.buffer)
      read == r.read
      l1 == [l EXCEPT !.pos = @ + read, !.buffer = r.buffer]
  IN IF read > 0
     THEN LET l2 == [l1 EXCEPT !.size = @ + read]
          IN IF Len(l2.buffer) >= l2.chunk_size
             THEN LET chunk == SubSeq(l2.buffer, 1, l2.chunk_size)
                      rest == SubSeq(l2.buffer, l2.chunk_size + 1, Len(l2.buffer))
                      hash_code == sum_sha256(chunk)
                      l3 == [l2 EXCEPT !.buffer = rest,
                                       !.chunks = Append(@, hash_code),
                                       !.hash_code = hash_code,
                                       !.payload = compress_chunk(chunk),
                                       !.ret = "loop"]
                  IN IF ~is_path_exist(fs, hash_code)
                     THEN [next |-> "save", l |-> l3]
                     ELSE [next |-> "loop", l |-> l3]
             ELSE [next |-> "loop", l |-> l2]
     ELSE LET chunk == l1.buffer
              hash_code == sum_sha256(chunk)
              l3 == [l1 EXCEPT !.chunks = Append(@, hash_code),
                               !.hash_code = hash_code,
                               !.payload = compress_chunk(chunk),
                               !.ret = "break"]
          IN IF ~is_path_exist(fs, hash_code)
             THEN [next |-> "save", l |-> l3]
             ELSE [next |-> "break", l |-> l3]

\* a loop body whose end-of-input branch lacks the break
loop_body_no_break(l, fs) ==
  LET r == reader_read(l.data, l.pos, l.buffer)
      read == r.read
      l1 == [l EXCEPT !.pos = @ + read, !.buffer = r.buffer]
  IN IF read > 0
     THEN [next |-> "loop", l |-> [l1 EXCEPT !.size = @ + read]]
     ELSE [next |-> "loop", l |-> l1]

\* One pass of the loop body up to its first suspension point: the locals
\* after it, and "save" (a chunk must be written), "loop" or "break".
loop_body(l, fs) ==
  LET r == reader_read(l.data, l.pos, l.buffer)
      read == r.read
      l1 == [l EXCEPT !.pos = @ + read, !.buffer = r.buffer]
  IN IF read > 0
     THEN LET l2 == [l1 EXCEPT !.size = @ + read]
          IN IF Len(l2.buffer) >= l2.chunk_size
             THEN LET chunk == SubSeq(l2.buffer, 1, l2.chunk_size)
                      rest == SubSeq(l2.buffer, l2.chunk_size + 1, Len(l2.buffer))
                      hash_code == sum_sha256(chunk)
                      l3 == [l2 EXCEPT !.buffer = rest,
                                       !.chunks = Append(@, hash_code),
                                       !.hash_code = hash_code,
                                       !.payload = compress_chunk(chunk),
                                       !.ret = "loop"]
                  IN IF ~is_path_exist(fs, hash_code)
                     THEN [next |-> "save", l |-> l3]
                     ELSE [next |-> "loop", l |-> l3]
             ELSE [next |-> "loop", l |-> l2]
     ELSE IF l1.buffer # <<>>
          THEN LET chunk == l1.buffer
                   hash_code == sum_sha256(chunk)
                   l3 == [l1 EXCEPT !.chunks = Append(@, hash_code),
                                    !.hash_code = hash_code,
                                    !.payload = compress_chunk(chunk),
                                    !.ret = "break"]
               IN IF ~is_path_exist(fs, hash_code)
                  THEN [next |-> "save", l |-> l3]
                  ELSE [next |-> "break", l |-> l3]
          ELSE [next |-> "break", l |-> l1]

Ok(l) == [kind |-> "ok", size |-> l.size, chunks |-> l.chunks]
Err == [kind |-> "err", size |-> 0, chunks |-> <<>>]
Panic == [kind |-> "panic", size |-> 0, chunks |-> <<>>]

\* the value a finished save_file hands back to its caller's next step
after_save(l) ==
  IF l.op = "split" /\ l.ret = "loop"
  THEN [l EXCEPT !.pc = "loop"]
  ELSE [l EXCEPT !.pc = "done",
                 !.result = IF l.op = "split" THEN Ok(l)
                            ELSE [kind |-> "ok", size |-> 0, chunks |-> <<>>]]

failed(l, res) == [l EXCEPT !.pc = "done", !.result = res]

\* a task calls split_file_and_save(data, chunk_size)
SplitCall(t) ==
  /\ task[t].pc = "idle"
  /\ \E data \in Inputs, chunk_size \in 1..MaxChunk :
       task' = [task EXCEPT ![t] =
                  [IdleTask EXCEPT !.pc = "loop", !.op = "split",
                                   !.data = data, !.chunk_size = chunk_size,
                                   !.buffer = new_buffer,
                                   !.before = DOMAIN files]]
  /\ UNCHANGED << files, dirs, strm, meta, mtask >>

\* the same task calls split_file_and_save again on the same input
SplitAgain(t) ==
  /\ task[t].pc = "done"
  /\ task[t].op = "split"
  /\ task[t].result.kind = "ok"
  /\ task[t].first.kind = "none"
  /\ task' = [task EXCEPT ![t] =
                [IdleTask EXCEPT !.pc = "loop", !.op = "split",
                                 !.data = task[t].data,
                                 !.chunk_size = task[t].chunk_size,
                                 !.buffer = new_buffer,
                                 !.before = DOMAIN files,
                                 !.first = task[t].result]]
  /\ UNCHANGED << files, dirs, strm, meta, mtask >>

SplitLoop(t) ==
  /\ task[t].pc = "loop"
  /\ LET b == loop_body(task[t], files)
         atEnd == b.next = "break" \/ (b.next = "save" /\ b.l.ret = "break")
         l == [b.l EXCEPT !.iters = Min(@ + 1, MaxIters),
                          !.flushes = IF atEnd THEN @ + 1 ELSE @]
     IN task' = [task EXCEPT ![t] =
          CASE b.next = "save" ->
                 [l EXCEPT !.pc = "mkdir", !.saves = @ + 1]
            [] b.next = "loop" -> l
            [] OTHER -> [l EXCEPT !.pc = "done", !.result = Ok(l)]]
  /\ UNCHANGED << files, dirs, strm, meta, mtask >>

\* ----------------------------------------------------------- save_file
\* a task calls save_file(sum_sha256(chunk), compress_chunk(chunk)) itself
SaveCall(t) ==
  /\ task[t].pc = "idle"
  /\ \E chunk \in Contents :
       task' = [task EXCEPT ![t] =
                  [IdleTask EXCEPT !.pc = "mkdir", !.op = "save",
                                   !.hash_code = sum_sha256(chunk),
                                   !.payload = compress_chunk(chunk),
                                   !.saves = 1,
                                   !.before = DOMAIN files]]
  /\ UNCHANGED << files, dirs, strm, meta, mtask >>

\* tokio::fs::create_dir_all(file_path.parent().unwrap()).await?
create_dir_all(ds, dir) == ds \cup ancestors(dir)

SaveMkdir(t) ==
  /\ task[t].pc = "mkdir"
  /\ \E ok \in BOOLEAN :
       IF ok
       THEN /\ dirs' = create_dir_all(dirs, parent(path_from_hash(task[t].hash_code)))
            /\ task' = [task EXCEPT ![t].pc = "open"]
       ELSE /\ dirs' = dirs
            /\ task' = [task EXCEPT ![t] = failed(@, Err)]
  /\ UNCHANGED << files, strm, meta, mtask >>

\* an open that truncates the file it finds
open_truncate(fs, p) ==
  [q \in DOMAIN fs \cup {p} |-> IF q = p THEN <<>> ELSE fs[q]]

\* OpenOptions::new().read(true).write(true).create(true).open(&p): the
\* file system after the open (an absent file is created empty, an existing
\* one is left as it is)
open_create(fs, p) ==
  IF p \in DOMAIN fs THEN fs
  ELSE [q \in DOMAIN fs \cup {p} |-> IF q = p THEN <<>> ELSE fs[q]]

SaveOpen(t) ==
  /\ task[t].pc = "open"
  /\ LET p == path_from_hash(task[t].hash_code)
     IN \E ok \in BOOLEAN :
          IF ok /\ parent(p) \in dirs
          THEN /\ files' = open_create(files, p)
               /\ task' = [task EXCEPT ![t].pc = "set_len",
                                       ![t].created =
                                          IF p \in DOMAIN files THEN @
                                          ELSE @ \cup {p}]
          ELSE /\ files' = files
               /\ task' = [task EXCEPT ![t] = failed(@, Err)]
  /\ UNCHANGED << dirs, strm, meta, mtask >>

\* file.set_len(n): truncates, or extends with zero bytes
set_len(bytes, n) ==
  [i \in 1..n |-> IF i <= Len(bytes) THEN bytes[i] ELSE 0]

SaveSetLen(t) ==
  /\ task[t].pc = "set_len"
  /\ LET p == path_from_hash(task[t].hash_code)
     IN \E ok \in BOOLEAN :
          IF ok
          THEN /\ files' = [files EXCEPT ![p] = set_len(@, Len(task[t].payload))]
               /\ task' = [task EXCEPT ![t].pc = "map"]
          ELSE /\ files' = files
               /\ task' = [task EXCEPT ![t] = failed(@, Err)]
  /\ UNCHANGED << dirs, strm, meta, mtask >>

\* MmapOptions::new().map_mut(&file).unwrap(), and the length check of
\* copy_from_slice: a failed mapping or a length mismatch panics
SaveMap(t) ==
  /\ task[t].pc = "map"
  /\ LET p == path_from_hash(task[t].hash_code)
     IN \E ok \in BOOLEAN :
          IF ok /\ Len(files[p]) = Len(task[t].payload)
          THEN task' = [task EXCEPT ![t].pc = "copy",
                                    ![t].todo = 1..Len(task[t].payload)]
          ELSE task' = [task EXCEPT ![t] = failed(@, Panic)]
  /\ UNCHANGED << files, dirs, strm, meta, mtask >>

\* a copy that stops one byte short of the end of the slice
copy_byte_short(bytes, content, i) ==
  [bytes EXCEPT ![i] = IF i = Len(content) THEN @ ELSE content[i]]

\* the bytes of the mapping that copy_from_slice has stored so far reach
\* the file one at a time, in no fixed order
copy_byte(bytes, content, i) == [bytes EXCEPT ![i] = content[i]]

SaveCopy(t) ==
  /\ task[t].pc = "copy"
  /\ LET p == path_from_hash(task[t].hash_code)
     IN \E i \in task[t].todo :
          /\ files' = [files EXCEPT ![p] = copy_byte(@, task[t].payload, i)]
          /\ task' = [task EXCEPT ![t] =
                        IF task[t].todo = {i}
                        THEN after_save([@ EXCEPT !.todo = {}])
                        ELSE [@ EXCEPT !.todo = @ \ {i}]]
  /\ UNCHANGED << dirs, strm, meta, mtask >>

\* ---------------------------------------------------- DecompressStream
\* DecompressStream::new(hashes): over any hash list, or over the list a
\* finished split_file_and_save call returned
StreamNew ==
  /\ strm.gen = 0
  /\ \E hashes \in HashLists :
       strm' = [NewStream EXCEPT !.hashes = hashes, !.gen = 1]
  /\ UNCHANGED << files, dirs, task, meta, mtask >>

\* DecompressStream::new over the list a finished split_file_and_save call
\* returned, as the read path does
StreamOf(t) ==
  /\ strm.gen = 0
  /\ task[t].pc = "done"
  /\ task[t].op = "split"
  /\ task[t].result.kind = "ok"
  /\ strm' = [NewStream EXCEPT !.hashes = task[t].result.chunks, !.src = t,
                               !.gen = 1]
  /\ UNCHANGED << files, dirs, task, meta, mtask >>

\* a pull that resolves the hash after the one at the cursor
poll_next_ahead(s, fs) ==
  IF s.idx + 1 >= Len(s.hashes)
  THEN [s |-> s, item |-> [some |-> FALSE, bytes |-> <<>>]]
  ELSE LET x == s.hashes[s.idx + 2]
           path == path_from_hash(x)
           res == decompress_chunk(fs, path)
       IN IF res.ok
          THEN [s |-> [s EXCEPT !.idx = @ + 1],
                item |-> [some |-> TRUE, bytes |-> res.bytes]]
          ELSE [s |-> s, item |-> [some |-> FALSE, bytes |-> <<>>]]

\* a pull that steps over a chunk that does not decompress
poll_next_skip(s, fs) ==
  IF s.idx >= Len(s.hashes)
  THEN [s |-> s, item |-> [some |-> FALSE, bytes |-> <<>>]]
  ELSE LET x == s.hashes[s.idx + 1]
           path == path_from_hash(x)
           res == decompress_chunk(fs, path)
       IN IF res.ok
          THEN [s |-> [s EXCEPT !.idx = @ + 1],
                item |-> [some |-> TRUE, bytes |-> res.bytes]]
          ELSE [s |-> [s EXCEPT !.idx = @ + 1],
                item |-> [some |-> FALSE, bytes |-> <<>>]]

\* poll_next: the stream after the pull, and the item (or the end signal)
poll_next(s, fs) ==
  IF s.idx >= Len(s.hashes)
  THEN [s |-> s, item |-> [some |-> FALSE, bytes |-> <<>>]]
  ELSE LET x == s.hashes[s.idx + 1]
           path == path_from_hash(x)
           res == decompress_chunk(fs, path)
       IN IF res.ok
          THEN [s |-> [s EXCEPT !.idx = @ + 1],
                item |-> [some |-> TRUE, bytes |-> res.bytes]]
          ELSE [s |-> s, item |-> [some |-> FALSE, bytes |-> <<>>]]

StreamPoll ==
  /\ strm.gen > 0
  /\ LET r == poll_next(strm, files)
     IN strm' =
          IF r.item.some
          THEN [r.s EXCEPT !.yielded = Append(@, r.item.bytes),
                           !.last = "item"]
          ELSE [r.s EXCEPT !.last = "end", !.ended = TRUE,
                           !.short = @ \/ strm.idx < Len(strm.hashes)]
  /\ strm' # strm
  /\ UNCHANGED << files, dirs, task, meta, mtask >>

\* ------------------------------------------------------------ metadata
HexUpper == [i \in 1..16 |-> to_uppercase(HexLower[i])]

\* the bytes of a hash string
as_bytes(hash) ==
  [i \in 1..Len(hash) |-> (CHOOSE k \in 1..16 : HexUpper[k] = hash[i]) - 1]

\* the Metadata records callers save: strings are byte sequences
Metas ==
  { [name |-> <<1>>, size |-> z, file_type |-> <<3>>, time |-> 7,
     chunks |-> [i \in 1..Len(hs) |-> as_bytes(hs[i])]] :
      z \in 0..1, hs \in HashLists }

put_str(str) == << Len(str) >> \o str

RECURSIVE put_strs(_)
put_strs(strs) ==
  IF strs = <<>> THEN <<>> ELSE put_str(strs[1]) \o put_strs(Tail(strs))

RECURSIVE reversed(_)
reversed(strs) ==
  IF strs = <<>> THEN <<>> ELSE Append(reversed(Tail(strs)), strs[1])

\* an archive that writes the chunk list back to front
to_bytes_reversed(metadata) ==
  put_str(metadata.name) \o << metadata.size >> \o put_str(metadata.file_type)
    \o << metadata.time >> \o << Len(metadata.chunks) >>
    \o put_strs(reversed(metadata.chunks))

\* rkyv::to_bytes: the archive of a Metadata record, fields in order
to_bytes(metadata) ==
  put_str(metadata.name) \o << metadata.size >> \o put_str(metadata.file_type)
    \o << metadata.time >> \o << Len(metadata.chunks) >>
    \o put_strs(metadata.chunks)

get_u(b, pos) ==
  IF pos < 1 \/ pos > Len(b) THEN [ok |-> FALSE, val |-> 0, next |-> 0]
  ELSE [ok |-> TRUE, val |-> b[pos], next |-> pos + 1]

get_str(b, pos) ==
  IF pos < 1 \/ pos > Len(b) THEN [ok |-> FALSE, val |-> <<>>, next |-> 0]
  ELSE IF pos + b[pos] > Len(b) THEN [ok |-> FALSE, val |-> <<>>, next |-> 0]
  ELSE [ok |-> TRUE, val |-> SubSeq(b, pos + 1, pos + b[pos]),
        next |-> pos + b[pos] + 1]

RECURSIVE get_strs(_, _, _)
get_strs(b, pos, n) ==
  IF n = 0 THEN [ok |-> pos >= 1, val |-> <<>>, next |-> pos]
  ELSE LET x == get_str(b, pos)
       IN IF ~x.ok THEN [ok |-> FALSE, val |-> <<>>, next |-> 0]
          ELSE LET r == get_strs(b, x.next, n - 1)
               IN [ok |-> r.ok, val |-> << x.val >> \o r.val, next |-> r.next]

\* rkyv::check_archived_root::<Metadata>: the archived record if the bytes
\* are exactly one structurally valid archive, and deserialize on it
check_archived_root(b) ==
  LET name == get_str(b, 1)
      size == get_u(b, name.next)
      file_type == get_str(b, size.next)
      time == get_u(b, file_type.next)
      count == get_u(b, time.next)
      chunks == IF count.ok THEN get_strs(b, count.next, count.val)
                ELSE [ok |-> FALSE, val |-> <<>>, next |-> 0]
  IN IF name.ok /\ size.ok /\ file_type.ok /\ time.ok /\ count.ok /\ chunks.ok
        /\ chunks.next = Len(b) + 1
     THEN [ok |-> TRUE,
           metadata |-> [name |-> name.val, size |-> size.val,
                         file_type |-> file_type.val, time |-> time.val,
                         chunks |-> chunks.val]]
     ELSE [ok |-> FALSE, metadata |-> NoMetadata]

\* The encryption service: a block cipher in a chaining mode under a fixed
\* key, with padding to whole blocks.
BlockLen == 2
Key == 91
Iv == 17

pad(plain) ==
  LET n == BlockLen - (Len(plain) % BlockLen)
  IN plain \o [i \in 1..n |-> n]

RECURSIVE chain(_, _)
chain(padded, sofar) ==
  IF Len(sofar) = Len(padded) THEN sofar
  ELSE LET i == Len(sofar) + 1
           prev == IF i > BlockLen THEN sofar[i - BlockLen] ELSE Iv
       IN chain(padded, Append(sofar, (padded[i] + Key + prev) % 256))

aes_256_cbc_encrypt(plain) == chain(pad(plain), <<>>)

aes_256_cbc_decrypt(cipher) ==
  IF Len(cipher) = 0 \/ Len(cipher) % BlockLen # 0
  THEN [ok |-> FALSE, bytes |-> <<>>]
  ELSE LET padded == [i \in 1..Len(cipher) |->
                        (cipher[i] + 512 - Key
                           - (IF i > BlockLen THEN cipher[i - BlockLen] ELSE Iv))
                          % 256]
           n == padded[Len(padded)]
       IN IF n >= 1 /\ n <= BlockLen
             /\ \A i \in (Len(padded) - n + 1)..Len(padded) : padded[i] = n
          THEN [ok |-> TRUE, bytes |-> SubSeq(padded, 1, Len(padded) - n)]
          ELSE [ok |-> FALSE, bytes |-> <<>>]

\* load_metadata on the file as it is read: Ok(record), Err, or a panic
load_metadata(f) ==
  IF ~f.exists THEN [kind |-> "err", metadata |-> NoMetadata]
  ELSE LET metadata_bytes == aes_256_cbc_decrypt(f.bytes)
       IN IF ~metadata_bytes.ok THEN [kind |-> "err", metadata |-> NoMetadata]
          ELSE LET archived == check_archived_root(metadata_bytes.bytes)
               IN IF ~archived.ok
                  THEN [kind |-> "panic", metadata |-> NoMetadata]
                  ELSE [kind |-> "ok", metadata |-> archived.metadata]

\* a task calls save_metadata(path, metadata)
SaveMetaCall(t) ==
  /\ mtask[t].pc = "idle"
  /\ \E metadata \in Metas :
       mtask' = [mtask EXCEPT ![t].pc = "mkdir", ![t].metadata = metadata]
  /\ UNCHANGED << files, dirs, task, strm, meta >>

\* fs::create_dir_all(parent)?, then the encryption of the archive
SaveMetaMkdir(t) ==
  /\ mtask[t].pc = "mkdir"
  /\ \E ok \in BOOLEAN :
       IF ok
       THEN /\ meta' = [meta EXCEPT !.dir = TRUE]
            /\ mtask' = [mtask EXCEPT
                 ![t].pc = "create",
                 ![t].meta_bytes = aes_256_cbc_encrypt(to_bytes(mtask[t].metadata))]
       ELSE /\ meta' = meta
            /\ mtask' = [mtask EXCEPT ![t].pc = "done", ![t].result = "err"]
  /\ UNCHANGED << files, dirs, task, strm >>

\* fs::write, first half: the file is created, or truncated to nothing
SaveMetaCreate(t) ==
  /\ mtask[t].pc = "create"
  /\ \E ok \in BOOLEAN :
       IF ok /\ meta.dir
       THEN /\ meta' = [meta EXCEPT !.exists = TRUE, !.bytes = <<>>]
            /\ mtask' = [mtask EXCEPT ![t].pc = "write"]
       ELSE /\ meta' = meta
            /\ mtask' = [mtask EXCEPT ![t].pc = "done", ![t].result = "err"]
  /\ UNCHANGED << files, dirs, task, strm >>

\* bytes written from offset 0 over what the file holds by then
write_all(old, new) == new \o SubSeq(old, Len(new) + 1, Len(old))

\* fs::write, second half
SaveMetaWrite(t) ==
  /\ mtask[t].pc = "write"
  /\ \E ok \in BOOLEAN :
       IF ok
       THEN /\ meta' = [meta EXCEPT !.bytes = write_all(@, mtask[t].meta_bytes)]
            /\ mtask' = [mtask EXCEPT ![t].pc = "done", ![t].result = "ok"]
       ELSE /\ meta' = meta
            /\ mtask' = [mtask EXCEPT ![t].pc = "done", ![t].result = "err"]
  /\ UNCHANGED << files, dirs, task, strm >>

\* a task that is not inside save_metadata calls load_metadata(path)
LoadMetadata(t) ==
  /\ mtask[t].pc \in {"idle", "done"}
  /\ \E ok \in BOOLEAN :
       mtask' = [mtask EXCEPT ![t].loaded =
                   IF ok THEN load_metadata(meta)
                   ELSE [kind |-> "err", metadata |-> NoMetadata]]
  /\ mtask' # mtask
  /\ UNCHANGED << files, dirs, task, strm, meta >>

\* the write path: split_file_and_save calls beside direct saves, and the
\* read path over the lists they return
Next ==
  \/ \E t \in Tasks : SplitCall(t)
  \/ \E t \in Tasks : SplitAgain(t)
  \/ \E t \in Tasks : SplitLoop(t)
  \/ \E t \in Tasks : SaveCall(t)
  \/ \E t \in Tasks : SaveMkdir(t)
  \/ \E t \in Tasks : SaveOpen(t)
  \/ \E t \in Tasks : SaveSetLen(t)
  \/ \E t \in Tasks : SaveMap(t)
  \/ \E t \in Tasks : SaveCopy(t)
  \/ \E t \in Tasks : StreamOf(t)
  \/ StreamPoll

Spec == Init /\ [][Next]_vars

\* the chunk store under concurrent writers and a reader
NextStore ==
  \/ \E t \in Tasks : SaveCall(t)
  \/ \E t \in Tasks : SaveMkdir(t)
  \/ \E t \in Tasks : SaveOpen(t)
  \/ \E t \in Tasks : SaveSetLen(t)
  \/ \E t \in Tasks : SaveMap(t)
  \/ \E t \in Tasks : SaveCopy(t)
  \/ StreamNew
  \/ StreamPoll

SpecStore == Init /\ [][NextStore]_vars

\* the write path when every step that can run is run in the end: the
\* executor polls a call that is ready, and each file-system step completes
Fairness ==
  \A t \in Tasks :
    /\ WF_vars(SplitLoop(t))
    /\ WF_vars(SaveMkdir(t)) /\ WF_vars(SaveOpen(t)) /\ WF_vars(SaveSetLen(t))
    /\ WF_vars(SaveMap(t)) /\ WF_vars(SaveCopy(t))

SpecLive == Init /\ [][Next]_vars /\ Fairness

\* the metadata file under concurrent writers and readers
NextMeta ==
  \/ \E t \in Tasks : SaveMetaCall(t)
  \/ \E t \in Tasks : SaveMetaMkdir(t)
  \/ \E t \in Tasks : SaveMetaCreate(t)
  \/ \E t \in Tasks : SaveMetaWrite(t)
  \/ \E t \in Tasks : LoadMetadata(t)

SpecMeta == Init /\ [][NextMeta]_vars

\* path_from_hash on its own: each caller holds a hash string and calls it
MaxHashLen == 5
HashAlphabet == {"0", "F"}
HashStrings == UNION {[1..n -> HashAlphabet] : n \in 4..MaxHashLen}

InitPath ==
  /\ files = << >>
  /\ dirs = {}
  /\ task \in [Tasks -> {[IdleTask EXCEPT !.hash_code = h] : h \in HashStrings}]
  /\ strm = NewStream
  /\ meta = [dir |-> FALSE, exists |-> FALSE, bytes |-> <<>>]
  /\ mtask = [t \in Tasks |-> IdleMeta]

PathCall(t) ==
  /\ task[t].pc = "idle"
  /\ task' = [task EXCEPT ![t].pc = "done", ![t].op = "path",
                          ![t].created = {path_from_hash(task[t].hash_code)}]
  /\ UNCHANGED << files, dirs, strm, meta, mtask >>

NextPath == \E t \in Tasks : PathCall(t)

SpecPath == InitPath /\ [][NextPath]_vars

\* ------------------------------------------------------------- claims
\* what fixed-size chunking of data gives: full chunks of c bytes in file
\* order, then the rest if any
RECURSIVE ChunksOf(_, _)
ChunksOf(data, c) ==
  IF data = <<>> THEN <<>>
  ELSE IF Len(data) <= c THEN << data >>
  ELSE << SubSeq(data, 1, c) >> \o ChunksOf(SubSeq(data, c + 1, Len(data)), c)

RECURSIVE Concat(_)
Concat(ss) == IF ss = <<>> THEN <<>> ELSE ss[1] \o Concat(Tail(ss))

RECURSIVE SumLen(_)
SumLen(ss) == IF ss = <<>> THEN 0 ELSE Len(ss[1]) + SumLen(Tail(ss))

HashesOf(data, c) ==
  LET cs == ChunksOf(data, c) IN [i \in 1..Len(cs) |-> sum_sha256(cs[i])]

ChunkUniverse == SeqsUpTo(Bytes \cup {0}, MaxChunk)

ContentOf(hash) ==
  IF \E d \in ChunkUniverse : sum_sha256(d) = hash
  THEN CHOOSE d \in ChunkUniverse : sum_sha256(d) = hash
  ELSE <<>>

SplitDone(t) ==
  /\ task[t].pc = "done"
  /\ task[t].op = "split"
  /\ task[t].result.kind = "ok"

\* C1: split_file_and_save(b, c) and then a fresh DecompressStream over the
\* returned hash list, pulled until it ends, yields segments whose
\* concatenation is b, and the sum of their lengths is the returned total
\* size, which is len(b).
RoundTrip ==
  \A t \in Tasks :
    (SplitDone(t) /\ strm.src = t /\ strm.ended)
      => /\ Concat(strm.yielded) = task[t].data
         /\ SumLen(strm.yielded) = task[t].result.size
         /\ task[t].result.size = Len(task[t].data)

\* C2: the returned hash list holds, in file order, the digest of each
\* successive chunk_size slice of the input and then of the final shorter
\* rest if there is one: k entries for k*c bytes, k+1 for k*c + r bytes.
BoundaryChunking ==
  \A t \in Tasks :
    SplitDone(t)
      => task[t].result.chunks = HashesOf(task[t].data, task[t].chunk_size)

\* C3: whenever is_path_exist(h) holds, the file at path_from_hash(h) is the
\* complete compressed payload of the content whose digest is h, and
\* decompressing it returns that content.
ChunkStoreValid ==
  \A h \in Hashes :
    is_path_exist(files, h)
      => /\ files[path_from_hash(h)] = compress_chunk(ContentOf(h))
         /\ decompress_chunk(files, path_from_hash(h)).ok
         /\ decompress_chunk(files, path_from_hash(h)).bytes = ContentOf(h)

\* C4: a second split_file_and_save call on the same input and chunk size,
\* made after the first has returned, returns the same hash list, invokes
\* save_file not once and creates no file.
DedupIdempotent ==
  \A t \in Tasks :
    (SplitDone(t) /\ task[t].first.kind = "ok")
      => /\ task[t].result.chunks = task[t].first.chunks
         /\ task[t].saves = 0
         /\ task[t].created = {}

DedupIdempotentWitness ==
  \E t \in Tasks :
    /\ SplitDone(t)
    /\ task[t].first.kind = "ok"
    /\ task[t].data # <<>>
    /\ DOMAIN files # {}

\* C5: a completed split_file_and_save call creates one chunk file for each
\* distinct chunk content of its input that was not in the store when the
\* call began and none for the others, and its hash list has one entry per
\* chunk.
CrossFileDedup ==
  \A t \in Tasks :
    SplitDone(t)
      => LET hs == HashesOf(task[t].data, task[t].chunk_size)
         IN /\ task[t].created =
                 {path_from_hash(hs[i]) : i \in 1..Len(hs)} \ task[t].before
            /\ Len(task[t].result.chunks) = Len(hs)

SaveCallers(h) == {t \in Tasks : task[t].op = "save" /\ task[t].hash_code = h}

\* C6: once every save_file call for one hash has returned Ok, whatever the
\* interleaving of their steps, the chunk file holds exactly the payload.
ConcurrentSaveSafe ==
  \A h \in Hashes :
    (/\ SaveCallers(h) # {}
     /\ \A t \in SaveCallers(h) :
          task[t].pc = "done" /\ task[t].result.kind = "ok")
      => /\ is_path_exist(files, h)
         /\ files[path_from_hash(h)] = compress_chunk(ContentOf(h))

ConcurrentSaveSafeWitness ==
  \E h \in Hashes :
    /\ SaveCallers(h) = Tasks
    /\ \A t \in Tasks : task[t].pc = "done" /\ task[t].result.kind = "ok"

\* C7: the stream yields in list order: the items yielded so far are as
\* many as the cursor counts, each pull that yields hands out what
\* decompressing the file of the next hash of the list gives and moves the
\* cursor by one, a pull at a hash whose file decompresses yields, and a pull
\* at the end of the list signals the end.
StreamOrder ==
  /\ [](Len(strm.yielded) = strm.idx /\ strm.idx <= Len(strm.hashes))
  /\ [][strm.gen = 1 /\ strm' # strm =>
          LET j == Len(strm.yielded) + 1
              res == IF j <= Len(strm.hashes)
                     THEN decompress_chunk(files, path_from_hash(strm.hashes[j]))
                     ELSE [ok |-> FALSE, bytes |-> <<>>]
          IN /\ strm'.hashes = strm.hashes
             /\ IF res.ok
                THEN /\ strm'.yielded = Append(strm.yielded, res.bytes)
                     /\ strm'.last = "item"
                ELSE /\ strm'.yielded = strm.yielded
                     /\ strm'.last = "end"]_vars

StreamOrderWitness ==
  /\ Len(strm.hashes) = 2
  /\ strm.hashes[1] # strm.hashes[2]
  /\ strm.idx = 2
  /\ strm.yielded = << ContentOf(strm.hashes[1]), ContentOf(strm.hashes[2]) >>
  /\ strm.last = "end"

\* C8: once a pull has signalled the end because the chunk at the cursor
\* did not decompress, no later pull on the same stream yields an item.
StreamStaysEnded ==
  [][strm.short => strm'.yielded = strm.yielded]_vars

\* C9: no failure aborts the calling task: every call ends with Ok or Err.
ErrorsPropagate ==
  \A t \in Tasks :
    /\ task[t].result.kind # "panic"
    /\ mtask[t].loaded.kind # "panic"

\* C9, for load_metadata alone: a load never ends in a panic.
LoadNeverPanics ==
  \A t \in Tasks : mtask[t].loaded.kind # "panic"

\* C10: the total size returned equals the sum of the uncompressed lengths
\* of the chunks named in the returned hash list.
SizeInvariant ==
  \A t \in Tasks :
    SplitDone(t)
      => task[t].result.size
           = SumLen([i \in 1..Len(task[t].result.chunks) |->
                       ContentOf(task[t].result.chunks[i])])

SizeInvariantWitness ==
  \E t \in Tasks :
    /\ SplitDone(t)
    /\ task[t].data # <<>>
    /\ task[t].chunk_size < Len(task[t].data)

MetaSaved(t) == mtask[t].pc = "done" /\ mtask[t].result = "ok"

\* C11: when two save_metadata calls for the same path with different
\* records have both returned Ok, the file is exactly the ciphertext one of
\* them wrote, and a load returns one of the two records.
MetaLastWriteWins ==
  (/\ \A t \in Tasks : MetaSaved(t)
   /\ \E t, u \in Tasks : mtask[t].metadata # mtask[u].metadata)
    => /\ \E t \in Tasks : meta.bytes = mtask[t].meta_bytes
       /\ \E t \in Tasks :
            load_metadata(meta) = [kind |-> "ok", metadata |-> mtask[t].metadata]

\* C12: save_metadata(p, m) and then load_metadata(p), with no other writer
\* of p, returns m in every field, the chunk list in the same order.
MetaRoundTrip ==
  \A t \in Tasks :
    (MetaSaved(t) /\ \A u \in Tasks \ {t} : mtask[u].pc = "idle")
      => /\ load_metadata(meta) = [kind |-> "ok", metadata |-> mtask[t].metadata]
         /\ mtask[t].loaded.kind = "ok"
              => mtask[t].loaded.metadata = mtask[t].metadata

MetaRoundTripWitness ==
  \E t \in Tasks :
    /\ MetaSaved(t)
    /\ \A u \in Tasks \ {t} : mtask[u].pc = "idle"
    /\ mtask[t].loaded.kind = "ok"
    /\ Len(mtask[t].metadata.chunks) = 2
    /\ mtask[t].metadata.chunks[1] # mtask[t].metadata.chunks[2]

EmptySplit(t) == task[t].op = "split" /\ task[t].data = <<>>

\* C13: split_file_and_save on an empty buffer, for every chunk size and
\* store state, returns size 0 and an empty list, emits no zero-length chunk
\* and changes nothing in the store: none of its steps creates a file or a
\* directory.
EmptyInput ==
  /\ [](\A t \in Tasks :
          EmptySplit(t)
            => /\ task[t].chunks = <<>> /\ task[t].saves = 0
               /\ task[t].created = {}
               /\ task[t].pc \in {"loop", "done"}
               /\ task[t].pc = "done"
                    => task[t].result = [kind |-> "ok", size |-> 0, chunks |-> <<>>])
  /\ [][\A t \in Tasks :
          (EmptySplit(t) /\ task[t].pc = "loop" /\ task'[t] # task[t])
            => (task'[t].pc = "done" /\ UNCHANGED << files, dirs >>)]_vars

EmptyInputWitness ==
  \E t \in Tasks :
    /\ EmptySplit(t) /\ task[t].pc = "done" /\ task[t].chunk_size = MaxChunk
    /\ DOMAIN files # {}
    /\ task[t].before # {}

PathDone(t) == task[t].op = "path" /\ task[t].pc = "done"

\* C14: path_from_hash is pure, and for a hash of n >= 4 characters its
\* result is the root data/file followed by exactly three segments: the
\* first character, the next two characters, and the remaining n - 3.
PathDeterminism ==
  /\ files = << >> /\ dirs = {}
  /\ \A t \in Tasks :
       PathDone(t)
         => LET h == task[t].hash_code
            IN \E p \in task[t].created :
                 /\ task[t].created = {p}
                 /\ Len(p) = 4
                 /\ p[1] = "data/file"
                 /\ p[2] = << h[1] >>
                 /\ p[3] = << h[2], h[3] >>
                 /\ Len(p[4]) = Len(h) - 3
                 /\ p[2] \o p[3] \o p[4] = h
  /\ \A t, u \in Tasks :
       (PathDone(t) /\ PathDone(u) /\ task[t].hash_code = task[u].hash_code)
         => task[t].created = task[u].created

PathDeterminismWitness ==
  \E t \in Tasks :
    /\ PathDone(t) /\ Len(task[t].hash_code) = MaxHashLen
    /\ task[t].hash_code[1] # task[t].hash_code[2]
    /\ task[t].hash_code[3] # task[t].hash_code[4]

\* C20: two distinct hash strings of the same length >= 4 get distinct
\* paths from path_from_hash.
PathInjective ==
  \A t, u \in Tasks :
    (/\ PathDone(t) /\ PathDone(u)
     /\ Len(task[t].hash_code) = Len(task[u].hash_code)
     /\ task[t].hash_code # task[u].hash_code)
      => task[t].created \cap task[u].created = {}

PathInjectiveWitness ==
  \E t, u \in Tasks :
    /\ PathDone(t) /\ PathDone(u)
    /\ Len(task[t].hash_code) = MaxHashLen
    /\ Len(task[u].hash_code) = MaxHashLen
    /\ task[t].hash_code # task[u].hash_code
    /\ SubSeq(task[t].hash_code, 1, MaxHashLen - 1)
         = SubSeq(task[u].hash_code, 1, MaxHashLen - 1)

\* where the chunk store keeps each content, and the bytes it keeps there
ChunkFile ==
  [chunk \in Contents |->
     [path |-> path_from_hash(sum_sha256(chunk)), bytes |-> compress_chunk(chunk)]]

Complete(fs, chunk) ==
  /\ ChunkFile[chunk].path \in DOMAIN fs
  /\ fs[ChunkFile[chunk].path] = ChunkFile[chunk].bytes

\* C15: once the file of a hash holds its complete compressed payload, no
\* later step of any operation changes its length or its bytes.
ChunkImmutable ==
  [][\A chunk \in Contents :
       Complete(files, chunk) => Complete(files', chunk)]_vars

\* a second writer ran all its steps on a file that was there when it was
\* called, after which the file is complete and a pull has read it
ChunkImmutableWitness ==
  \E chunk \in Contents : \E t, u \in Tasks :
    /\ t # u
    /\ Complete(files, chunk)
    /\ \A v \in {t, u} :
         /\ task[v].hash_code = sum_sha256(chunk)
         /\ task[v].pc = "done" /\ task[v].result.kind = "ok"
    /\ path_from_hash(sum_sha256(chunk)) \in task[u].before
    /\ strm.yielded = << chunk >>

\* C16: the cursor of a stream stays within 0..len(hashes) and its hash
\* list never changes; a pull that yields advances the cursor by exactly 1
\* and hands out the chunk of hashes[idx] and no other, a pull that signals
\* the end leaves the cursor where it was, and the cursor never decreases.
StreamCursor ==
  /\ [](strm.idx \in 0..Len(strm.hashes))
  /\ [][strm.gen > 0
          => /\ strm'.hashes = strm.hashes
             /\ strm'.idx >= strm.idx
             /\ Len(strm'.yielded) = Len(strm.yielded) + 1
                  => /\ strm'.idx = strm.idx + 1
                     /\ strm'.yielded[Len(strm'.yielded)] =
                          decompress_chunk(
                            files, path_from_hash(strm.hashes[strm.idx + 1])).bytes
             /\ (strm' # strm /\ strm'.yielded = strm.yielded)
                  => strm'.idx = strm.idx]_vars

\* one chunk yielded, then the end signalled at the second, which is absent
StreamCursorWitness ==
  /\ Len(strm.hashes) = 2
  /\ strm.hashes[1] # strm.hashes[2]
  /\ strm.idx = 1
  /\ strm.last = "end"
  /\ path_from_hash(strm.hashes[2]) \notin DOMAIN files

\* the stream runs over the hash list that the finished call of t returned
StreamOver(t) ==
  /\ SplitDone(t)
  /\ strm.gen > 0 /\ strm.src = t
  /\ strm.hashes = task[t].result.chunks

SplitTerminates ==
  /\ [](\A t \in Tasks :
          task[t].op = "split"
            => /\ task[t].iters <= Len(task[t].data) + 1
               /\ task[t].flushes <= 1
               /\ SplitDone(t) => task[t].flushes = 1)
  /\ \A t \in Tasks :
       (task[t].op = "split" /\ task[t].pc # "done")
         ~> (task[t].op = "split" /\ task[t].pc = "done")

SplitTerminatesWitness ==
  \E t \in Tasks :
    /\ SplitDone(t)
    /\ Len(task[t].data) = MaxData
    /\ task[t].iters >= 1 /\ task[t].flushes = 1
    /\ task[t].first.kind = "ok"

====
